---- MODULE Spec2Model ----
(***************************************************************************)
(* planetaryum/extractors.py: the extractor classes and the generator      *)
(* extract(reader, extractors).                                            *)
(*                                                                         *)
(* Python values are dynamically typed; a value that can meet a value of   *)
(* another type (an extractor result, a constructor argument) is written   *)
(* as a record [type, val] so that values of different types are unequal.  *)
(* A dict is a function on its keys (an insertion-ordered dict whose order *)
(* the code iterates is a sequence of entries), a list is a sequence.      *)
(***************************************************************************)
EXTENDS Integers, Sequences, FiniteSets, TLC

\* ------------------------------------------------------------------------
\* Bounds of the model
\* ------------------------------------------------------------------------
MaxDocs == 3        \* pairs the reader yields, at most
MaxExtractors == 2  \* configured extractors, at most
MaxCells == 2       \* cells of a notebook, at most
MaxOutputs == 2     \* outputs of a notebook over all its cells, at most

\* ------------------------------------------------------------------------
\* Python values
\* ------------------------------------------------------------------------
None == [type |-> "NoneType", val |-> "None"]
Str(s) == [type |-> "str", val |-> s]
Bool(b) == [type |-> "bool", val |-> b]
Tuple(t) == [type |-> "tuple", val |-> t]
List(s) == [type |-> "list", val |-> s]
Bytes(raw) == [type |-> "bytes", val |-> raw]
Dict(m) == [type |-> "dict", val |-> m]

EmptyDict == <<>>
Get(m, k, default) == IF k \in DOMAIN m THEN m[k] ELSE default
Put(m, k, v) == [x \in (DOMAIN m) \cup {k} |-> IF x = k THEN v ELSE m[x]]

\* The outcome of a call: a returned value, or the exception it raised.
NoExc == "none"
Return(v) == [exc |-> NoExc, val |-> v]
Raise(x) == [exc |-> x, val |-> None]

\* ------------------------------------------------------------------------
\* Extractor.__init__ and the subclasses' constructors
\* ------------------------------------------------------------------------
\* self.name = self.__class__.__name__ if name is None else name
ExtractorInit(cls, name) == IF name = None THEN cls ELSE name.val

\* thumbnails=True stands for the default box; any other value is kept.
DefaultThumbnails == Tuple(<<200, 200>>)
MetadataThumbnails(thumbnails) ==
    IF thumbnails = Bool(TRUE) THEN DefaultThumbnails ELSE thumbnails

\* template_file or 'basic.tpl'
TemplateFile(template_file) ==
    IF template_file = None THEN "basic.tpl" ELSE template_file.val

\* An extractor object after construction.
NewExtractor(cls, name, thumbnails, template_file) ==
    [cls |-> cls,
     name |-> ExtractorInit(cls, name),
     thumbnails |-> IF cls = "MetadataExtractor"
                    THEN MetadataThumbnails(thumbnails) ELSE None,
     template_file |-> IF cls = "HTMLExtractor"
                       THEN Str(TemplateFile(template_file)) ELSE None]

\* Python truth value of self.thumbnails (False, None, an empty tuple: false).
TruthyUnlessNone(v) == v # None
Truthy(v) ==
    CASE v.type = "bool" -> v.val
      [] v.type = "tuple" -> Len(v.val) > 0
      [] OTHER -> FALSE

\* ------------------------------------------------------------------------
\* Documents.  A document is the bytes a stream over it reads: raw names
\* the bytes, wellformed says whether they are JSON text, nb is the object
\* json.load gives for them.
\*
\* A notebook nb is a dict with the key "cells" and optionally "metadata".
\* A cell is a dict, optionally with "outputs", a list of outputs.  An
\* output is a dict, optionally with "output_type" and "data"; data is a
\* dict from MIME type to a base64 string or a list of base64 strings,
\* written as the sequence of its entries [key, value] in the order
\* .items() gives them.
\* ------------------------------------------------------------------------
\* json.load(nb)
JSONExtractorCall(doc, name) ==
    IF doc.wellformed THEN Return(Dict(doc.nb)) ELSE Raise("JSONDecodeError")

\* nb.read()
BlobExtractorCall(doc, name) == Return(Bytes(doc.raw))

\* self.exporter.from_file(nb, resources={'filename': name}) is nbconvert's:
\* it reads the notebook as JSON and renders it with the template.
HTMLExtractorCall(self, doc, name) ==
    IF ~doc.wellformed THEN Raise("NotJSONError")
    ELSE Return(Dict([meta |-> [filename |-> name],
                      html |-> [template |-> self.template_file.val,
                                source |-> doc.raw]]))

\* ------------------------------------------------------------------------
\* MetadataExtractor.__call__
\* ------------------------------------------------------------------------
\* A base64 payload d is named by what decoding it gives:
\*   imgA, imgB  two different images
\*   badb64      base64.b64decode raises binascii.Error (a ValueError)
\*   notimage    Image.open raises UnidentifiedImageError (an OSError)
\*   rterr       Image.open raises RuntimeError
Payloads == {"imgA", "imgB", "badb64", "notimage", "rterr"}

\* Image.open(io.BytesIO(base64.b64decode(d)))
ImageOpen(d) ==
    CASE d = "badb64" -> Raise("binascii.Error")
      [] d = "notimage" -> Raise("UnidentifiedImageError")
      [] d = "rterr" -> Raise("RuntimeError")
      [] OTHER -> Return(d)

\* except RuntimeError: the exception classes the handler catches.
Caught(exc) == exc = "RuntimeError"

\* t.thumbnail(self.thumbnails); t.save(out, format="PNG");
\* 'data:image/png;base64,' + base64.b64encode(out.getbuffer()).decode()
Thumb(t, size) ==
    [prefix |-> "data:image/png;base64,", png |-> [image |-> t, box |-> size.val]]

\* key.lower(), on the MIME types of the model
Lower(key) ==
    CASE key = "Image/JPEG" -> "image/jpeg"
      [] OTHER -> key

IsImageKeyExact(key) == key \in {"image/png", "image/jpeg"}
IsImageKey(key) == Lower(key) \in {"image/png", "image/jpeg"}

\* if type(data) is not list: data = [data]
AsList(data) == IF data.type # "list" THEN <<data.val>> ELSE data.val

\* The loops return [exc, thumbs]: the exception that left the loop (NoExc
\* when it ran to its end) and the list thumbs as it is then.

\* for d in data: (lines 51-61), from the i-th payload on.  An exception the
\* handler does not catch leaves the loop and, there being no other handler,
\* the call.  Line 58 rebinds the name out of the enclosing loop; the
\* iterators of the enclosing loops exist by then and out is not read again
\* before the next output is bound to it, so thumbs is all that changes.
RECURSIVE PayloadLoop(_, _, _, _)
PayloadLoop(data, i, size, thumbs) ==
    IF i > Len(data) THEN [exc |-> NoExc, thumbs |-> thumbs]
    ELSE LET t == ImageOpen(data[i]) IN
         IF t.exc # NoExc
         THEN IF Caught(t.exc)
              THEN PayloadLoop(data, i + 1, size, thumbs)
              ELSE [exc |-> t.exc, thumbs |-> thumbs]
         ELSE PayloadLoop(data, i + 1, size, Append(thumbs, Thumb(t.val, size)))

\* for key, data in out.get('data', {}).items(): (lines 47-61)
RECURSIVE DataLoop(_, _, _, _)
DataLoop(items, k, size, thumbs) ==
    IF k > Len(items) THEN [exc |-> NoExc, thumbs |-> thumbs]
    ELSE IF IsImageKey(items[k].key)
         THEN LET r == PayloadLoop(AsList(items[k].value), 1, size, thumbs) IN
              IF r.exc # NoExc THEN r ELSE DataLoop(items, k + 1, size, r.thumbs)
         ELSE DataLoop(items, k + 1, size, thumbs)

\* if out.get('output_type') == 'display_data':
IsDisplayAny(out) == TRUE
IsDisplay(out) == Get(out, "output_type", "") = "display_data"

\* for out in cell.get('outputs', []): (lines 45-61)
RECURSIVE OutputLoop(_, _, _, _)
OutputLoop(outputs, o, size, thumbs) ==
    IF o > Len(outputs) THEN [exc |-> NoExc, thumbs |-> thumbs]
    ELSE IF IsDisplay(outputs[o])
         THEN LET r == DataLoop(Get(outputs[o], "data", <<>>), 1, size, thumbs) IN
              IF r.exc # NoExc THEN r ELSE OutputLoop(outputs, o + 1, size, r.thumbs)
         ELSE OutputLoop(outputs, o + 1, size, thumbs)

\* for cell in nb['cells']: (lines 44-61)
RECURSIVE CellLoop(_, _, _, _)
CellLoop(cells, c, size, thumbs) ==
    IF c > Len(cells) THEN [exc |-> NoExc, thumbs |-> thumbs]
    ELSE LET r == OutputLoop(Get(cells[c], "outputs", <<>>), 1, size, thumbs) IN
         IF r.exc # NoExc THEN r ELSE CellLoop(cells, c + 1, size, r.thumbs)

\* The whole call (lines 38-62).  meta['thumbs'] = [] replaces a thumbs key
\* the document's metadata may have.
MetadataExtractorCall(self, doc, name) ==
    LET nb == JSONExtractorCall(doc, name) IN
    IF nb.exc # NoExc THEN nb
    ELSE LET meta == Get(nb.val.val, "metadata", EmptyDict) IN
         IF ~Truthy(self.thumbnails) THEN Return(Dict(meta))
         ELSE IF "cells" \notin DOMAIN nb.val.val THEN Raise("KeyError")
         ELSE LET r == CellLoop(nb.val.val["cells"], 1, self.thumbnails, <<>>) IN
              IF r.exc # NoExc THEN Raise(r.exc)
              ELSE Return(Dict(Put(meta, "thumbs", r.thumbs)))

\* e(f, name): the call dispatched on the extractor's class.
Call(e, doc, name) ==
    CASE e.cls = "JSONExtractor" -> JSONExtractorCall(doc, name)
      [] e.cls = "MetadataExtractor" -> MetadataExtractorCall(e, doc, name)
      [] e.cls = "BlobExtractor" -> BlobExtractorCall(doc, name)
      [] e.cls = "HTMLExtractor" -> HTMLExtractorCall(e, doc, name)

\* ------------------------------------------------------------------------
\* The inputs of the model
\* ------------------------------------------------------------------------
SeqsUpTo(S, n) == UNION {[1..m -> S] : m \in 0..n}

Entry(key, value) == [key |-> key, value |-> value]
Output(output_type, data) == [output_type |-> output_type, data |-> data]

\* The outputs cells are made of.  Under output_type display_data: an image
\* as a single string; a list of two images; a list whose first payload
\* raises RuntimeError; corrupt base64 under image/jpeg; an image followed
\* by bytes that are no image; three keys, one of them no image type and
\* one in capitals; no data at all.  Then an image in an output of another
\* type and in an output without output_type.
Outputs ==
    {Output("display_data", <<Entry("image/png", Str("imgA"))>>),
     Output("display_data", <<Entry("image/png", List(<<"imgA", "imgB">>))>>),
     Output("display_data", <<Entry("image/png", List(<<"rterr", "imgB">>))>>),
     Output("display_data", <<Entry("image/jpeg", Str("badb64"))>>),
     Output("display_data", <<Entry("image/png", List(<<"imgA", "notimage">>))>>),
     Output("display_data", <<Entry("text/plain", Str("imgA")),
                              Entry("Image/JPEG", Str("imgB")),
                              Entry("image/png", List(<<"imgA">>))>>),
     [output_type |-> "display_data"],
     Output("stream", <<Entry("image/png", Str("imgA"))>>),
     [data |-> <<Entry("image/png", Str("imgB"))>>]}

NumOutputs(cell) == Len(Get(cell, "outputs", <<>>))

\* The cells with exactly k outputs: for none, a cell without the key
\* "outputs" and a cell whose list is empty.
CellsWith(k) ==
    {[outputs |-> s] : s \in [1..k -> Outputs]}
    \cup (IF k = 0 THEN {EmptyDict} ELSE {})

\* The lists of exactly n cells with at most budget outputs in all.
RECURSIVE CellSeqs(_, _)
CellSeqs(n, budget) ==
    IF n = 0 THEN {<<>>}
    ELSE UNION {{<<c>> \o rest : c \in CellsWith(k),
                                 rest \in CellSeqs(n - 1, budget - k)}
                : k \in 0..budget}

Metadatas ==
    {[kernelspec |-> "python3"],
     [kernelspec |-> "python3",
      thumbs |-> <<Thumb("imgB", Tuple(<<32, 32>>))>>]}

\* The lists of at most maxCells cells with at most maxOutputs outputs.
CellLists(maxCells, maxOutputs) ==
    UNION {CellSeqs(n, maxOutputs) : n \in 0..maxCells}

\* The notebooks with the given cells: with or without the key "metadata".
Notebooks(cells) ==
    {[cells |-> cells]} \cup {[cells |-> cells, metadata |-> m] : m \in Metadatas}

Document(raw, wellformed, nb) == [raw |-> raw, wellformed |-> wellformed, nb |-> nb]
Malformed == Document("{not json", FALSE, EmptyDict)

\* The documents MetadataExtractor is called on: the notebooks with the
\* given cells, and bytes that are not JSON.
Documents(cells) ==
    {Document("notebook", TRUE, n) : n \in Notebooks(cells)} \cup {Malformed}

\* The values given for thumbnails at construction.
ThumbnailArgs == {Bool(FALSE), Bool(TRUE), Tuple(<<64, 64>>)}

\* The documents the reader of extract yields: a notebook with one figure,
\* and bytes that are not JSON.
Figure ==
    Document("notebook", TRUE,
             [metadata |-> [kernelspec |-> "python3"],
              cells |-> <<[outputs |->
                  <<Output("display_data", <<Entry("image/png", Str("imgA"))>>)>>]>>])
ReaderPairs ==
    {[nb |-> Figure, name |-> "a"], [nb |-> Figure, name |-> "b"],
     [nb |-> Malformed, name |-> "c"]}

\* The constructor calls that configure extract: each class with its
\* default name, an extractor named "name", and a JSONExtractor that shares
\* the name of BlobExtractor().
Config(cls, name, thumbnails, template_file) ==
    [cls |-> cls, name |-> name, thumbnails |-> thumbnails,
     template_file |-> template_file]
Configs ==
    {Config("BlobExtractor", None, None, None),
     Config("JSONExtractor", None, None, None),
     Config("MetadataExtractor", None, Bool(TRUE), None),
     Config("HTMLExtractor", None, None, None),
     Config("BlobExtractor", Str("name"), None, None),
     Config("JSONExtractor", Str("BlobExtractor"), None, None)}

New(c) == NewExtractor(c.cls, c.name, c.thumbnails, c.template_file)

\* ------------------------------------------------------------------------
\* State
\* ------------------------------------------------------------------------
VARIABLES
    reader,       \* the pairs (nb, name) the reader yields, in its order
    configs,      \* the constructor arguments of the configured extractors
    extractors,   \* the list of extractor objects given to extract
    pc,           \* where the generator stands
    pos,          \* pairs taken from the reader so far; the current one is reader[pos]
    ei,           \* extractors of the list taken so far for the current pair
    d,            \* the record being built
    f,            \* the stream of the with statement, 0 outside of it
    exc,          \* the exception leaving the body of the with statement
    streams,      \* the streams open now
    opened,       \* streams opened so far
    calls,        \* every extractor invocation so far
    yielded,      \* the records the consumer received
    requests,     \* next() calls that resumed the generator
    last,         \* what the latest next() gave the consumer
    self,         \* the MetadataExtractor called on its own
    thumbnails,   \* the thumbnails argument self was constructed with
    document,     \* the document it is called on
    result        \* the outcome of the call

pipeline == <<reader, configs, extractors, pc, pos, ei, d, f, exc, streams,
              opened, calls, yielded, requests, last>>
single == <<self, thumbnails, document, result>>
vars == <<pipeline, single>>

Pending == [exc |-> "pending", val |-> None]

\* The generator before its first next().
Created ==
    /\ pc = "start" /\ pos = 0 /\ ei = 0 /\ d = EmptyDict /\ f = 0
    /\ exc = NoExc /\ streams = {} /\ opened = 0 /\ calls = <<>>
    /\ yielded = <<>> /\ requests = 0 /\ last = "none"

\* No MetadataExtractor is constructed yet.
Unconstructed == self = None /\ thumbnails = None /\ result = Pending

Init ==
    /\ reader \in SeqsUpTo(ReaderPairs, MaxDocs)
    /\ configs \in SeqsUpTo(Configs, MaxExtractors)
    /\ extractors = [i \in DOMAIN configs |-> New(configs[i])]
    /\ Created
    /\ Unconstructed
    /\ document = Malformed

\* ------------------------------------------------------------------------
\* extract(reader, extractors), lines 126-132
\* ------------------------------------------------------------------------
nb == reader[pos].nb
name == reader[pos].name
e == extractors[ei]

\* The consumer calls next() on the suspended generator.
Request ==
    /\ pc \in {"start", "yielded"}
    /\ pc' = "for_reader"
    /\ requests' = requests + 1
    /\ last' = "running"
    /\ UNCHANGED <<reader, configs, extractors, pos, ei, d, f, exc, streams,
                   opened, calls, yielded, single>>

\* next() on a generator that returned or raised: StopIteration, nothing runs.
RequestFinished ==
    /\ pc \in {"done", "failed"}
    /\ last' = "StopIteration"
    /\ UNCHANGED <<reader, configs, extractors, pc, pos, ei, d, f, exc, streams,
                   opened, calls, yielded, requests, single>>

ForReaderStopsEarly ==
    /\ pc = "for_reader"
    /\ IF pos < Len(reader) - 1
       THEN /\ pos' = pos + 1
            /\ d' = EmptyDict
            /\ ei' = 0
            /\ pc' = "for_e"
            /\ last' = last
       ELSE /\ pc' = "done"
            /\ last' = "StopIteration"
            /\ UNCHANGED <<pos, d, ei>>
    /\ UNCHANGED <<reader, configs, extractors, f, exc, streams, opened, calls,
                   yielded, requests, single>>

\* for nb, name in reader: d = {}
ForReader ==
    /\ pc = "for_reader"
    /\ IF pos < Len(reader)
       THEN /\ pos' = pos + 1
            /\ d' = EmptyDict
            /\ ei' = 0
            /\ pc' = "for_e"
            /\ last' = last
       ELSE /\ pc' = "done"
            /\ last' = "StopIteration"
            /\ UNCHANGED <<pos, d, ei>>
    /\ UNCHANGED <<reader, configs, extractors, f, exc, streams, opened, calls,
                   yielded, requests, single>>

\* for e in extractors: with nb.open() as f:
Open ==
    /\ pc = "for_e"
    /\ ei < Len(extractors)
    /\ ei' = ei + 1
    /\ opened' = opened + 1
    /\ f' = opened + 1
    /\ streams' = streams \cup {opened + 1}
    /\ pc' = "call"
    /\ UNCHANGED <<reader, configs, extractors, pos, d, exc, calls, yielded,
                   requests, last, single>>

InvokeSetDefault ==
    /\ pc = "call"
    /\ LET r == Call(e, nb, name) IN
       /\ calls' = Append(calls, [doc |-> pos, e |-> ei, f |-> f,
                                  open |-> streams, requests |-> requests,
                                  exc |-> r.exc])
       /\ exc' = r.exc
       /\ d' = IF r.exc = NoExc /\ e.name \notin DOMAIN d
               THEN Put(d, e.name, r.val) ELSE d
    /\ pc' = "with_exit"
    /\ UNCHANGED <<reader, configs, extractors, pos, ei, f, streams, opened,
                   yielded, requests, last, single>>

\* d[e.name] = e(f, name)
Invoke ==
    /\ pc = "call"
    /\ LET r == Call(e, nb, name) IN
       /\ calls' = Append(calls, [doc |-> pos, e |-> ei, f |-> f,
                                  open |-> streams, requests |-> requests,
                                  exc |-> r.exc])
       /\ exc' = r.exc
       /\ d' = IF r.exc = NoExc THEN Put(d, e.name, r.val) ELSE d
    /\ pc' = "with_exit"
    /\ UNCHANGED <<reader, configs, extractors, pos, ei, f, streams, opened,
                   yielded, requests, last, single>>

ReleaseSwallows ==
    /\ pc = "with_exit"
    /\ streams' = streams \ {f}
    /\ f' = 0
    /\ pc' = "for_e"
    /\ last' = last
    /\ UNCHANGED <<reader, configs, extractors, pos, ei, d, exc, opened, calls,
                   yielded, requests, single>>

ReleaseOnReturnOnly ==
    /\ pc = "with_exit"
    /\ IF exc # NoExc
       THEN /\ pc' = "failed"
            /\ last' = exc
            /\ UNCHANGED <<streams, f>>
       ELSE /\ pc' = "for_e"
            /\ last' = last
            /\ streams' = streams \ {f}
            /\ f' = 0
    /\ UNCHANGED <<reader, configs, extractors, pos, ei, d, exc, opened, calls,
                   yielded, requests, single>>

\* The with statement's exit: the stream is closed, and an exception of the
\* body leaves the generator, which is finished by it.
Release ==
    /\ pc = "with_exit"
    /\ streams' = streams \ {f}
    /\ f' = 0
    /\ IF exc # NoExc
       THEN /\ pc' = "failed"
            /\ last' = exc
       ELSE /\ pc' = "for_e"
            /\ last' = last
    /\ UNCHANGED <<reader, configs, extractors, pos, ei, d, exc, opened, calls,
                   yielded, requests, single>>

YieldEager ==
    /\ pc = "for_e"
    /\ ei = Len(extractors)
    /\ d' = Put(d, "name", Str(name))
    /\ yielded' = Append(yielded, d')
    /\ pc' = "for_reader"
    /\ last' = "record"
    /\ UNCHANGED <<reader, configs, extractors, pos, ei, f, exc, streams, opened,
                   calls, requests, single>>

YieldSetDefault ==
    /\ pc = "for_e"
    /\ ei = Len(extractors)
    /\ d' = IF "name" \in DOMAIN d THEN d ELSE Put(d, "name", Str(name))
    /\ yielded' = Append(yielded, d')
    /\ pc' = "yielded"
    /\ last' = "record"
    /\ UNCHANGED <<reader, configs, extractors, pos, ei, f, exc, streams, opened,
                   calls, requests, single>>

\* d['name'] = name; yield d
Yield ==
    /\ pc = "for_e"
    /\ ei = Len(extractors)
    /\ d' = Put(d, "name", Str(name))
    /\ yielded' = Append(yielded, d')
    /\ pc' = "yielded"
    /\ last' = "record"
    /\ UNCHANGED <<reader, configs, extractors, pos, ei, f, exc, streams, opened,
                   calls, requests, single>>

Next ==
    \/ Request
    \/ RequestFinished
    \/ ForReader
    \/ Open
    \/ Invoke
    \/ Release
    \/ Yield

Spec == Init /\ [][Next]_vars

\* ------------------------------------------------------------------------
\* MetadataExtractor(thumbnails=...)(nb, name), on its own
\* ------------------------------------------------------------------------
InitMetadata ==
    /\ reader = <<>> /\ configs = <<>> /\ extractors = <<>>
    /\ Created
    /\ Unconstructed
    /\ \E cells \in CellLists(MaxCells, MaxOutputs) : document \in Documents(cells)

\* self = MetadataExtractor(thumbnails=arg)
Construct ==
    /\ self = None
    /\ \E arg \in ThumbnailArgs :
          /\ thumbnails' = arg
          /\ self' = NewExtractor("MetadataExtractor", None, arg, None)
    /\ UNCHANGED <<pipeline, document, result>>

\* result = self(nb, name)
MetadataCall ==
    /\ self # None
    /\ result = Pending
    /\ result' = MetadataExtractorCall(self, document, "notebook")
    /\ UNCHANGED <<pipeline, self, thumbnails, document>>

NextMetadata ==
    \/ Construct
    \/ MetadataCall

SpecMetadata == InitMetadata /\ [][NextMetadata]_vars

\* ========================================================================
\* Properties of extract, checked under Spec
\* ========================================================================
Records == 1..Len(yielded)
Succeeds(i, k) == Call(extractors[i], reader[k].nb, reader[k].name).exc = NoExc
AllSucceed ==
    \A k \in DOMAIN reader : \A i \in DOMAIN extractors : Succeeds(i, k)

\* Control is with the consumer: before the first next(), at a yield, and
\* after the generator returned or raised.
WithConsumer == pc \in {"start", "yielded", "done", "failed"}

\* C1: when every extractor succeeds on every pair, the fully consumed
\* generator has yielded exactly one record per pair of the reader, in the
\* reader's order: the k-th record carries the k-th pair's name.
C1_OneRecordPerPair ==
    (AllSucceed /\ pc = "done") =>
        /\ Len(yielded) = Len(reader)
        /\ \A k \in Records : yielded[k]["name"] = Str(reader[k].name)

C1_Witness ==
    /\ AllSucceed /\ pc = "done"
    /\ Len(reader) = 2 /\ reader[1].name # reader[2].name
    /\ Len(extractors) >= 1

\* C2: extract is lazy.  Every extractor invocation on the k-th document,
\* on a stream opened for it, happens while the consumer's k-th request is
\* being served, never before it; the reader is never ahead of the
\* requests; and a failure on document k reaches the consumer as the
\* outcome of its k-th request.  So with k requests made, nothing was
\* invoked on a document after the k-th.
C2_Lazy ==
    /\ pos <= requests
    /\ \A j \in DOMAIN calls :
          calls[j].doc = calls[j].requests /\ calls[j].doc <= requests
    /\ (pc \in {"call", "with_exit"} => pos = requests)
    /\ (pc = "failed" /\ last # "StopIteration" =>
          /\ last = calls[Len(calls)].exc
          /\ calls[Len(calls)].doc = requests)

C2_Witness ==
    /\ pc = "failed" /\ requests = 2 /\ Len(yielded) = 1
    /\ last = "JSONDecodeError"

\* C3: extract does not recover from an extractor's exception.  The
\* invocation that raised is the last one there is: it is followed by no
\* invocation on the same or a later document.  The exception reaches the
\* consumer at the request for that document, the records yielded are
\* those of the documents before it, each complete, and the record under
\* construction, whatever it holds, is not among them.
C3_NoRecovery ==
    \A j \in DOMAIN calls :
        calls[j].exc # NoExc =>
            /\ j = Len(calls)
            /\ pc \in {"with_exit", "failed"}
            /\ Len(yielded) = calls[j].doc - 1
            /\ \A k \in Records :
                  /\ yielded[k]["name"] = Str(reader[k].name)
                  /\ \A i \in DOMAIN extractors :
                        extractors[i].name \in DOMAIN yielded[k]
            /\ (pc = "failed" =>
                  /\ last \in {calls[j].exc, "StopIteration"}
                  /\ requests = calls[j].doc)

C3_Witness ==
    /\ pc = "failed" /\ last = "StopIteration"
    /\ Len(yielded) = 1 /\ pos = 2 /\ Len(reader) = 3
    /\ ei = 2 /\ DOMAIN d # {}

\* C4: in every yielded record the key "name" holds the document's name,
\* also when an extractor is named "name"; that extractor was invoked on
\* the document all the same.
C4_NameKeyWins ==
    \A k \in Records :
        /\ yielded[k]["name"] = Str(reader[k].name)
        /\ \A i \in DOMAIN extractors :
              extractors[i].name = "name" =>
                  \E j \in DOMAIN calls :
                      calls[j].doc = k /\ calls[j].e = i /\ calls[j].exc = NoExc

C4_Witness ==
    /\ Len(yielded) >= 1
    /\ \E i \in DOMAIN configs : configs[i].name = Str("name")

\* The key of a configured extractor, as the claim words it: the name given
\* at construction when one is given, otherwise the class name.
KeyOf(c) == IF c.name # None THEN c.name.val ELSE c.cls
\* The last extractor of the configured order that has the key of the i-th.
LastWithKey(i) ==
    CHOOSE j \in DOMAIN configs :
        /\ KeyOf(configs[j]) = KeyOf(configs[i])
        /\ \A m \in DOMAIN configs :
              KeyOf(configs[m]) = KeyOf(configs[i]) => m <= j
ResultOn(i, k) == Call(extractors[i], reader[k].nb, reader[k].name).val
Invoked(i, k) == \E j \in DOMAIN calls : calls[j].doc = k /\ calls[j].e = i

\* C5 as claimed: every yielded record maps every configured extractor's
\* name to the result of the last extractor of that name, every extractor
\* was invoked, and the record has no other key than those names and "name".
C5_AsClaimed ==
    \A k \in Records :
        /\ DOMAIN yielded[k] = {KeyOf(configs[i]) : i \in DOMAIN configs} \cup {"name"}
        /\ \A i \in DOMAIN configs :
              /\ Invoked(i, k)
              /\ yielded[k][KeyOf(configs[i])] = ResultOn(LastWithKey(i), k)

\* C5, amended: the same, for every configured name other than "name"; the
\* key "name" holds the document's name.
C5_Amended ==
    \A k \in Records :
        /\ DOMAIN yielded[k] = {KeyOf(configs[i]) : i \in DOMAIN configs} \cup {"name"}
        /\ yielded[k]["name"] = Str(reader[k].name)
        /\ \A i \in DOMAIN configs :
              /\ Invoked(i, k)
              /\ KeyOf(configs[i]) # "name" =>
                    yielded[k][KeyOf(configs[i])] = ResultOn(LastWithKey(i), k)

C5_Witness ==
    /\ Len(yielded) >= 1
    /\ \E i, j \in DOMAIN configs :
          /\ i < j
          /\ KeyOf(configs[i]) = KeyOf(configs[j])
          /\ configs[j].name # None
          /\ ResultOn(i, 1) # ResultOn(j, 1)

\* C9: every invocation gets the stream of its own open (the j-th
\* invocation the j-th stream opened, which is the only one open then); at
\* most one stream is open at any time; the stream is closed when the with
\* statement is left, by a return or by an exception; and no stream is open
\* while control is with the consumer.
C9_Streams ==
    /\ Cardinality(streams) <= 1
    /\ (WithConsumer => streams = {})
    /\ (pc \in {"for_reader", "for_e"} => streams = {})
    /\ (pc \in {"call", "with_exit"} => streams = {f} /\ f = opened)
    /\ \A j \in DOMAIN calls : calls[j].f = j /\ calls[j].open = {j}
    /\ opened = Len(calls) + (IF pc = "call" THEN 1 ELSE 0)

C9_Witness ==
    /\ pc = "failed" /\ opened >= 2 /\ Len(yielded) >= 1

\* ========================================================================
\* Properties of MetadataExtractor.__call__, checked under SpecMetadata
\* ========================================================================
Called == result # Pending
Returned == Called /\ result.exc = NoExc
ThumbnailsOn == self # None /\ thumbnails # Bool(FALSE)
TheCells == document.nb["cells"]
TheMetadata ==
    IF "metadata" \in DOMAIN document.nb THEN document.nb["metadata"] ELSE EmptyDict

\* The document's payloads by position: <<c, o, k, i>> is the i-th payload
\* of the k-th entry of the data of the o-th output of the c-th cell.
OutputsAt(c) == IF "outputs" \in DOMAIN TheCells[c] THEN TheCells[c]["outputs"] ELSE <<>>
OutputAt(c, o) == OutputsAt(c)[o]
DataAt(c, o) == IF "data" \in DOMAIN OutputAt(c, o) THEN OutputAt(c, o)["data"] ELSE <<>>
PayloadsAt(c, o, k) ==
    LET v == DataAt(c, o)[k].value IN
    IF v.type = "str" THEN <<v.val>> ELSE v.val
PayloadAt(q) == PayloadsAt(q[1], q[2], q[3])[q[4]]
Positions ==
    UNION {UNION {UNION {{<<c, o, k, i>> : i \in DOMAIN PayloadsAt(c, o, k)}
                         : k \in DOMAIN DataAt(c, o)}
                  : o \in DOMAIN OutputsAt(c)}
           : c \in DOMAIN TheCells}

DisplayData(c, o) ==
    "output_type" \in DOMAIN OutputAt(c, o)
    /\ OutputAt(c, o)["output_type"] = "display_data"
ImageType(key) ==
    key \in {"image/png", "image/jpeg", "Image/JPEG", "IMAGE/PNG", "Image/Png",
             "IMAGE/JPEG"}
\* The payloads the claims count: under an image key of a display_data output.
Eligible == {q \in Positions : DisplayData(q[1], q[2])
                               /\ ImageType(DataAt(q[1], q[2])[q[3]].key)}
Decodes(q) == PayloadAt(q) \in {"imgA", "imgB"}
Decoded == {q \in Eligible : Decodes(q)}

\* The order the document is read in.
Before(p, q) ==
    \E n \in 1..4 : p[n] < q[n] /\ \A m \in 1..(n - 1) : p[m] = q[m]
Rank(q) == 1 + Cardinality({p \in Decoded : Before(p, q)})
Thumbs == result.val.val["thumbs"]

\* C6: with thumbnails enabled, a payload that does not decode is skipped.
\* The call on a well-formed notebook returns, and thumbs has one entry for
\* each eligible payload that decodes, those after a failed one included.
C6_UndecodableSkipped ==
    (Called /\ ThumbnailsOn /\ document.wellformed) =>
        /\ result.exc = NoExc
        /\ Len(Thumbs) = Cardinality(Decoded)

\* C7: with thumbnails enabled, a notebook without any display_data output
\* (no cells, cells without outputs, outputs of other types) gives metadata
\* whose thumbs list is empty.
C7_NoDisplayDataNoThumbs ==
    (Called /\ ThumbnailsOn /\ document.wellformed
        /\ \A c \in DOMAIN TheCells : \A o \in DOMAIN OutputsAt(c) : ~DisplayData(c, o)) =>
            /\ result.exc = NoExc
            /\ Thumbs = <<>>

C7_Witness ==
    /\ Returned /\ ThumbnailsOn /\ Thumbs = <<>>
    /\ Len(TheCells) = 2
    /\ "outputs" \notin DOMAIN TheCells[1]
    /\ Len(OutputsAt(2)) = 2
    /\ \A o \in 1..2 : ~DisplayData(2, o) /\ DataAt(2, o) # <<>>
    /\ "output_type" \in DOMAIN OutputAt(2, 1)
    /\ "output_type" \notin DOMAIN OutputAt(2, 2)

\* C8: constructed with thumbnails=False, the call on a well-formed
\* document returns the document's metadata field as it is, no key added,
\* removed or changed, and an empty dict when the field is missing.
C8_MetadataUnchanged ==
    (Called /\ self # None /\ thumbnails = Bool(FALSE) /\ document.wellformed) =>
        /\ result.exc = NoExc
        /\ result.val = Dict(TheMetadata)

C8_Witness ==
    /\ Returned /\ thumbnails = Bool(FALSE)
    /\ "metadata" \in DOMAIN document.nb
    /\ "thumbs" \notin DOMAIN result.val.val
    /\ Decoded # {}

\* C10: with thumbnails enabled, the thumbs list the call returns has one
\* entry per eligible payload that decodes (under image/png or image/jpeg
\* in any case, in the data of a display_data output, a single string being
\* a list of one) and no other entry, in the order the payloads are read:
\* by cell, by output, by entry, by place in the value.
C10_ThumbsInOrder ==
    (Returned /\ ThumbnailsOn) =>
        /\ DOMAIN Thumbs = 1..Cardinality(Decoded)
        /\ \A q \in Decoded : Thumbs[Rank(q)] = Thumb(PayloadAt(q), self.thumbnails)

C10_Witness ==
    /\ Returned /\ ThumbnailsOn
    /\ Len(Thumbs) = 3
    /\ \E p, q \in Decoded : p[1] < q[1]
    /\ \E p, q \in Decoded : p[1] = q[1] /\ p[2] = q[2] /\ p[3] = q[3] /\ p[4] < q[4]
    /\ \E q \in Eligible : ~Decodes(q)

====
